---- MODULE Spec2Model ----
(***************************************************************************)
(* Model of the chart gateway: the in-memory storage (Request Ledger and   *)
(* Event Store), the SSEManager session registry, ChartService.generateChart*)
(* and the three generation surfaces (REST, stdio MCP, HTTP MCP).          *)
(*                                                                         *)
(* One action is one run of handler code between two awaits: the program   *)
(* is single threaded, so the code between two awaits is atomic.  An await *)
(* of a MemStorage call, or the .then callback of a settled promise, is    *)
(* resumed as a microtask: `running` names the request whose continuation  *)
(* is queued, and no I/O callback (a new HTTP request, a settled fetch, a  *)
(* stream's close event) runs until the microtask queue is empty.  The     *)
(* REST server, the stdio MCP server and the HTTP MCP server are separate  *)
(* processes, each with its own storage: Spec, SpecStdio and SpecHttp.     *)
(***************************************************************************)
EXTENDS Integers, Sequences, FiniteSets, TLC

\* ---------------------------------------------------------------- bounds
\* Spec: requests submitted to the REST server, sessions it opens
MaxRequests == 1
MaxStreams == 1
\* SpecStdio: generate_chart calls
MaxCalls == 2
\* SpecHttp: generate_chart calls, sessions of the HTTP MCP server
MaxHttpCalls == 1
MaxMcpStreams == 1
\* SpecStorage: records created, terminal updates per record, events stored
MaxRecords == 2
MaxUpdates == 1
MaxEvents == 1
\* SpecLedger: records created, clock ticks, the largest limit asked for
MaxCreated == 3
MaxClock == 1
MaxLimit == 2
\* SpecSSE: sessions opened, frames per stream
MaxSessions == 2
MaxLog == 3
\* one session's stream, the events sent to it and its heartbeat timer
MaxTimers == 1
MaxLines == 5
\* one client id, the streams it opens one after another, and their timers
MaxReconnects == 2
\* REST requests of one client in flight together
MaxPair == 2

ClientIds == {"c1", "c2"}
McpClientIds == {"m1"}
NoClient == "none"            \* the x-client-id header is absent (undefined)
NULL == "null"
UNDEF == "undefined"
SYSTEM == <<"system">>      \* the reserved requestId 'system'
NoRequest == <<>>             \* a frame that carries no requestId
\* no direct call of the SSEManager API was the last step
NoOp == [op |-> "none", target |-> NoClient, count |-> 0, threw |-> FALSE]

\* no read of the ledger was made yet
NoRead == [call |-> "none", limit |-> 0, requestId |-> NoRequest,
           status |-> 0, value |-> <<>>]

VARIABLES
  chartRequests,    \* MemStorage.chartRequests: requestId -> ChartRequest
  currentChartId,   \* MemStorage.currentChartId
  sseEvents,        \* MemStorage.sseEvents: requestId -> SseEvent[]
  currentEventId,   \* MemStorage.currentEventId
  clients,          \* SSEManager.clients, in Map insertion order
  mcpClients,       \* ChartMCPHttpServer.clients, in Map insertion order
  streams,          \* every response stream ever opened
  tasks,            \* per request: where its handler is suspended
  running,          \* the request whose continuation is a queued microtask
  terminalWrites,   \* history: per request, updateChartRequest calls that
                    \* set a terminal status
  lastOp,           \* history: the last direct call of the SSEManager API
  rejected,         \* the error responses sent for submissions that failed
                    \* validation (they have no requestId)
  clock,            \* Date.now(), in milliseconds since the process started
  lastRead          \* the last read of the ledger and what the caller got

vars == <<chartRequests, currentChartId, sseEvents, currentEventId, clients,
          mcpClients, streams, tasks, running, terminalWrites, lastOp,
          rejected, clock, lastRead>>

World ==
  [chartRequests |-> chartRequests, currentChartId |-> currentChartId,
   sseEvents |-> sseEvents, currentEventId |-> currentEventId,
   clients |-> clients, mcpClients |-> mcpClients, streams |-> streams,
   terminalWrites |-> terminalWrites, lastOp |-> lastOp,
   rejected |-> rejected, clock |-> clock, lastRead |-> lastRead]

Commit(w) ==
  /\ chartRequests' = w.chartRequests
  /\ currentChartId' = w.currentChartId
  /\ sseEvents' = w.sseEvents
  /\ currentEventId' = w.currentEventId
  /\ clients' = w.clients
  /\ mcpClients' = w.mcpClients
  /\ streams' = w.streams
  /\ terminalWrites' = w.terminalWrites
  /\ lastOp' = w.lastOp
  /\ rejected' = w.rejected
  /\ clock' = w.clock
  /\ lastRead' = w.lastRead

Terminal == {"completed", "failed"}

\* ------------------------------------------------------------ MemStorage
\* `req_${Date.now()}_${id}`
RequestId(id) == <<"req", id>>

\* a request identifier made of the time alone: `req_${Date.now()}`
createChartRequestByClock(w) ==
  LET id == w.currentChartId
      requestId == RequestId(w.clock)
      request == [id |-> id, requestId |-> requestId, status |-> "pending",
                  chartUrl |-> NULL, base64Data |-> NULL,
                  errorMessage |-> NULL, processingTime |-> NULL,
                  createdAt |-> w.clock, completedAt |-> NULL]
  IN [w EXCEPT !.currentChartId = id + 1,
               !.chartRequests = (requestId :> request) @@ w.chartRequests,
               !.terminalWrites = (requestId :> 0) @@ w.terminalWrites]

createChartRequest(w) ==
  LET id == w.currentChartId
      requestId == RequestId(id)
      request == [id |-> id, requestId |-> requestId, status |-> "pending",
                  chartUrl |-> NULL, base64Data |-> NULL,
                  errorMessage |-> NULL, processingTime |-> NULL,
                  createdAt |-> w.clock, completedAt |-> NULL]
  IN [w EXCEPT !.currentChartId = id + 1,
               !.chartRequests = (requestId :> request) @@ w.chartRequests,
               !.terminalWrites = (requestId :> 0) @@ w.terminalWrites]

getChartRequest(w, requestId) ==
  IF requestId \in DOMAIN w.chartRequests THEN w.chartRequests[requestId]
  ELSE UNDEF

\* { ...existing, ...updates }
Spread(existing, updates) ==
  [f \in DOMAIN existing |->
     IF f \in DOMAIN updates THEN updates[f] ELSE existing[f]]

\* a ledger with one shared record: the updates reach every entry
updateChartRequestAll(w, requestId, updates) ==
  IF requestId \notin DOMAIN w.chartRequests THEN w
  ELSE [w EXCEPT
          !.chartRequests = [q \in DOMAIN @ |-> Spread(@[q], updates)],
          !.terminalWrites[requestId] =
             IF "status" \in DOMAIN updates /\ updates.status \in Terminal
             THEN @ + 1 ELSE @]

updateChartRequest(w, requestId, updates) ==
  IF requestId \notin DOMAIN w.chartRequests THEN w
  ELSE [w EXCEPT
          !.chartRequests[requestId] = Spread(@, updates),
          !.terminalWrites[requestId] =
             IF "status" \in DOMAIN updates /\ updates.status \in Terminal
             THEN @ + 1 ELSE @]

\* Array.from(this.chartRequests.values()): the records in insertion order,
\* which is the order of their ids (an update keeps the entry's place)
Values(w) ==
  [i \in 1..Cardinality(DOMAIN w.chartRequests) |->
     CHOOSE rec \in {w.chartRequests[r] : r \in DOMAIN w.chartRequests} :
        Cardinality({r \in DOMAIN w.chartRequests :
                       w.chartRequests[r].id <= rec.id}) = i]

\* one step of the stable sort with (a, b) => b.createdAt - a.createdAt:
\* x goes behind every element that does not sort after it
InsertByCreatedAt(sorted, x) ==
  LET k == Cardinality({i \in 1..Len(sorted) :
                          sorted[i].createdAt >= x.createdAt})
  IN SubSeq(sorted, 1, k) \o <<x>> \o SubSeq(sorted, k + 1, Len(sorted))

RECURSIVE SortByCreatedAt(_)
SortByCreatedAt(seq) ==
  IF seq = <<>> THEN <<>>
  ELSE InsertByCreatedAt(SortByCreatedAt(SubSeq(seq, 1, Len(seq) - 1)),
                         seq[Len(seq)])

\* .slice(0, limit), for limit >= 0
Slice(seq, limit) ==
  SubSeq(seq, 1, IF limit < Len(seq) THEN limit ELSE Len(seq))

getRecentChartRequests(w, limit) == Slice(SortByCreatedAt(Values(w)), limit)

\* a store that puts the newest event first (unshift instead of push)
createSseEventUnshift(w, requestId, eventType) ==
  LET id == w.currentEventId
      event == [id |-> id, requestId |-> requestId, eventType |-> eventType]
      old == IF requestId \in DOMAIN w.sseEvents
             THEN w.sseEvents[requestId] ELSE <<>>
  IN [w EXCEPT !.currentEventId = id + 1,
               !.sseEvents = (requestId :> (<<event>> \o old)) @@ w.sseEvents]

\* a store that keeps only the latest event of each request
createSseEventReplaces(w, requestId, eventType) ==
  LET id == w.currentEventId
      event == [id |-> id, requestId |-> requestId, eventType |-> eventType]
  IN [w EXCEPT !.currentEventId = id + 1,
               !.sseEvents = (requestId :> <<event>>) @@ w.sseEvents]

createSseEvent(w, requestId, eventType) ==
  LET id == w.currentEventId
      event == [id |-> id, requestId |-> requestId, eventType |-> eventType]
      old == IF requestId \in DOMAIN w.sseEvents
             THEN w.sseEvents[requestId] ELSE <<>>
  IN [w EXCEPT !.currentEventId = id + 1,
               !.sseEvents = (requestId :> Append(old, event)) @@ w.sseEvents]

getSseEvents(w, requestId) ==
  IF requestId \in DOMAIN w.sseEvents THEN w.sseEvents[requestId] ELSE <<>>

\* ------------------------------------------------------------ SSEManager
\* A Map kept in insertion order: a sequence of [id, stream] entries.
MapHas(m, k) == \E i \in 1..Len(m) : m[i].id = k
MapGet(m, k) == (CHOOSE i \in 1..Len(m) : m[i].id = k)
MapStream(m, k) == m[MapGet(m, k)].stream
MapSetAppends(m, k, s) == Append(m, [id |-> k, stream |-> s])

MapSet(m, k, s) ==
  IF MapHas(m, k) THEN [m EXCEPT ![MapGet(m, k)].stream = s]
  ELSE Append(m, [id |-> k, stream |-> s])
MapDelete(m, k) ==
  IF MapHas(m, k)
  THEN [i \in 1..(Len(m) - 1) |-> IF i < MapGet(m, k) THEN m[i] ELSE m[i + 1]]
  ELSE m
MapKeys(m) == [i \in 1..Len(m) |-> m[i].id]

\* String.prototype.toUpperCase on the event types the program uses
toUpperCase(eventType) ==
  CASE eventType = "connection" -> "CONNECTION"
    [] eventType = "request" -> "REQUEST"
    [] eventType = "progress" -> "PROGRESS"
    [] eventType = "success" -> "SUCCESS"
    [] eventType = "error" -> "ERROR"
    [] OTHER -> eventType

\* the ledger status a reader would get at this moment
StatusNow(w, requestId) ==
  IF requestId \in DOMAIN w.chartRequests
  THEN w.chartRequests[requestId].status ELSE "absent"

\* response.end()
EndStream(w, s) ==
  [w EXCEPT !.streams[s].state =
     IF @ \in {"open", "broken"} THEN "ended" ELSE @]

\* an array registry: splice(indexOf(clientId), 1) with indexOf = -1
removeClientSplice(w, clientId) ==
  IF MapHas(w.clients, clientId)
  THEN [EndStream(w, MapStream(w.clients, clientId))
          EXCEPT !.clients = MapDelete(w.clients, clientId)]
  ELSE IF w.clients = <<>> THEN w
  ELSE [EndStream(w, w.clients[Len(w.clients)].stream)
          EXCEPT !.clients = SubSeq(w.clients, 1, Len(w.clients) - 1)]

removeClient(w, clientId) ==
  IF MapHas(w.clients, clientId)
  THEN [EndStream(w, MapStream(w.clients, clientId))
          EXCEPT !.clients = MapDelete(w.clients, clientId)]
  ELSE w

\* One SSE frame (the 'event:' line and the 'data:' line, written by two
\* response.write calls in a row) on a stream.
\* ledgerAtWrite is history: the ledger status of the frame's request at
\* the moment response.write ran.
Frame(w, eventType, requestId) ==
  [type |-> eventType, requestId |-> requestId,
   ledgerAtWrite |-> StatusNow(w, requestId), lines |-> <<"event", "data">>]

\* the one line the heartbeat timer writes
Beat ==
  [type |-> "heartbeat", requestId |-> NoRequest, ledgerAtWrite |-> "absent",
   lines |-> <<"comment">>]

\* a catch block that swallows the error and keeps the client
sendEventKeeps(w, clientId, eventType, requestId) ==
  IF ~MapHas(w.clients, clientId) THEN w
  ELSE LET s == MapStream(w.clients, clientId) IN
       IF w.streams[s].state = "broken"
       THEN w
       ELSE LET w1 == [w EXCEPT !.streams[s].log =
                          Append(@, Frame(w, eventType, requestId))]
            IN IF requestId # SYSTEM
               THEN createSseEvent(w1, requestId, toUpperCase(eventType))
               ELSE w1

\* a send that takes a request's event to every registered session,
\* whatever the target
sendEventFansOut(w, clientId, eventType, requestId) ==
  IF ~MapHas(w.clients, clientId) THEN w
  ELSE LET s == MapStream(w.clients, clientId) IN
       IF w.streams[s].state = "broken"
       THEN removeClient(w, clientId)
       ELSE LET w1 == [w EXCEPT !.streams =
                          [x \in DOMAIN @ |->
                             IF \/ x = s
                                \/ /\ requestId # SYSTEM
                                   /\ \E i \in DOMAIN w.clients :
                                        w.clients[i].stream = x
                             THEN [@[x] EXCEPT !.log =
                                     Append(@, Frame(w, eventType, requestId))]
                             ELSE @[x]]]
            IN IF requestId # SYSTEM
               THEN createSseEvent(w1, requestId, toUpperCase(eventType))
               ELSE w1

\* a session that keeps its frames newest first
sendEventPrepends(w, clientId, eventType, requestId) ==
  IF ~MapHas(w.clients, clientId) THEN w
  ELSE LET s == MapStream(w.clients, clientId) IN
       IF w.streams[s].state = "broken"
       THEN removeClient(w, clientId)
       ELSE LET w1 == [w EXCEPT !.streams[s].log =
                          <<Frame(w, eventType, requestId)>> \o @]
            IN IF requestId # SYSTEM
               THEN createSseEvent(w1, requestId, toUpperCase(eventType))
               ELSE w1

\* a send that stores every event it wrote, the connection event too
sendEventStoresAll(w, clientId, eventType, requestId) ==
  IF ~MapHas(w.clients, clientId) THEN w
  ELSE LET s == MapStream(w.clients, clientId) IN
       IF w.streams[s].state = "broken"
       THEN removeClient(w, clientId)
       ELSE createSseEvent([w EXCEPT !.streams[s].log =
                               Append(@, Frame(w, eventType, requestId))],
                           requestId, toUpperCase(eventType))

sendEvent(w, clientId, eventType, requestId) ==
  IF ~MapHas(w.clients, clientId) THEN w
  ELSE LET s == MapStream(w.clients, clientId) IN
       IF w.streams[s].state = "broken"      \* response.write throws
       THEN removeClient(w, clientId)
       ELSE LET w1 == [w EXCEPT !.streams[s].log =
                          Append(@, Frame(w, eventType, requestId))]
            IN IF requestId # SYSTEM
               THEN createSseEvent(w1, requestId, toUpperCase(eventType))
               ELSE w1

\* clients.forEach: entries deleted during the iteration are not visited
RECURSIVE ForEachSend(_, _, _, _)
ForEachSend(w, keys, eventType, requestId) ==
  IF keys = <<>> THEN w
  ELSE ForEachSend(sendEvent(w, Head(keys), eventType, requestId),
                   Tail(keys), eventType, requestId)

\* a failed write that escapes sendEvent ends the forEach
broadcastAborts(w, eventType, requestId) ==
  LET keys == MapKeys(w.clients)
      bad == {i \in 1..Len(keys) :
                w.streams[w.clients[i].stream].state = "broken"}
      last == IF bad = {} THEN Len(keys)
              ELSE CHOOSE i \in bad : \A j \in bad : i <= j
  IN ForEachSend(w, SubSeq(keys, 1, last), eventType, requestId)

broadcast(w, eventType, requestId) ==
  ForEachSend(w, MapKeys(w.clients), eventType, requestId)

getClientCount(w) == Len(w.clients)

NewStream(owner, mgr, first) ==
  [owner |-> owner, mgr |-> mgr, state |-> "open", log |-> <<first>>,
   timer |-> "armed"]

addClient(w, clientId, s) ==
  sendEvent([w EXCEPT !.clients = MapSet(w.clients, clientId, s)],
            clientId, "connection", SYSTEM)

\* handleSSEConnection: the raw 'connected' frame, then addClient
handleSSEConnection(w, clientId) ==
  LET s == Len(w.streams) + 1
      raw == [type |-> "connection", requestId |-> NoRequest,
              ledgerAtWrite |-> "absent", lines |-> <<"event", "data">>]
  IN addClient([w EXCEPT !.streams = Append(@, NewStream(clientId, "sse", raw))],
               clientId, s)

\* --------------------------------------------------- ChartMCPHttpServer
\* sendSSEEvent: a failed write deletes the entry (the stream is not ended)
sendSSEEvent(w, clientId, type, requestId) ==
  IF ~MapHas(w.mcpClients, clientId) THEN w
  ELSE LET s == MapStream(w.mcpClients, clientId) IN
       IF w.streams[s].state = "broken"
       THEN [w EXCEPT !.mcpClients = MapDelete(w.mcpClients, clientId)]
       ELSE [w EXCEPT !.streams[s].log = Append(@, Frame(w, type, requestId))]

RECURSIVE ForEachSendSSE(_, _, _, _)
ForEachSendSSE(w, keys, type, requestId) ==
  IF keys = <<>> THEN w
  ELSE ForEachSendSSE(sendSSEEvent(w, Head(keys), type, requestId),
                      Tail(keys), type, requestId)

broadcastSSEEvent(w, type, requestId) ==
  ForEachSendSSE(w, MapKeys(w.mcpClients), type, requestId)

mcpHandleSSEConnection(w, clientId) ==
  LET s == Len(w.streams) + 1
      w1 == [w EXCEPT !.streams = Append(@, [owner |-> clientId, mgr |-> "mcp",
                                            state |-> "open", log |-> <<>>,
                                            timer |-> "armed"]),
                      !.mcpClients = MapSet(w.mcpClients, clientId, s)]
  IN sendSSEEvent(w1, clientId, "connection", NoRequest)

\* ---------------------------------------------- ChartService.generateChart
\* if (clientId) sseManager.sendEvent(clientId, ...)
Notify(w, clientId, eventType, requestId) ==
  IF clientId # NoClient THEN sendEvent(w, clientId, eventType, requestId)
  ELSE w

\* up to the await of fetch: the two 'progress' events
generateChartBegin(w, requestId, clientId) ==
  Notify(Notify(w, clientId, "progress", requestId),
         clientId, "progress", requestId)

\* the catch block: the 'error' event, then return { success: false }
generateChartCatch(w, requestId, clientId) ==
  Notify(w, clientId, "error", requestId)

\* a render that says nothing between the request to the upstream and the end
generateChartResponseQuiet(w, requestId, clientId) == w

\* response.ok: the third 'progress' event, then the body is awaited
generateChartResponse(w, requestId, clientId) ==
  Notify(w, clientId, "progress", requestId)

\* the body arrived: the 'success' event, then return result
generateChartSuccess(w, requestId, clientId) ==
  Notify(w, clientId, "success", requestId)

FailResult == [success |-> FALSE, url |-> UNDEF, base64 |-> UNDEF,
               error |-> "message"]
\* jsonData.url / jsonData.base64 may each be missing; a PNG body gives base64
Payloads == {[url |-> u, base64 |-> b] : u \in {UNDEF, "url"}, b \in {UNDEF, "b64"}}
OkResult(p) == [success |-> TRUE, url |-> p.url, base64 |-> p.base64,
                error |-> UNDEF]

\* a callback that never looks at result.success
TerminalUpdatesCompleted(result) ==
  [status |-> "completed", chartUrl |-> result.url,
   base64Data |-> result.base64, processingTime |-> "ms",
   completedAt |-> "date"]

\* a callback that stores a message on every outcome
TerminalUpdatesMessage(result) ==
  IF result.success
  THEN [status |-> "completed", chartUrl |-> result.url,
        base64Data |-> result.base64, errorMessage |-> "message",
        processingTime |-> "ms", completedAt |-> "date"]
  ELSE [status |-> "failed", errorMessage |-> result.error,
        processingTime |-> "ms", completedAt |-> "date"]

\* the updates object of the .catch callback on every failure: no
\* processingTime
TerminalUpdatesCatch(result) ==
  IF result.success
  THEN [status |-> "completed", chartUrl |-> result.url,
        base64Data |-> result.base64, processingTime |-> "ms",
        completedAt |-> "date"]
  ELSE [status |-> "failed", errorMessage |-> result.error,
        completedAt |-> "date"]

\* the updates object of the terminal ledger write
TerminalUpdates(result) ==
  IF result.success
  THEN [status |-> "completed", chartUrl |-> result.url,
        base64Data |-> result.base64, processingTime |-> "ms",
        completedAt |-> "date"]
  ELSE [status |-> "failed", errorMessage |-> result.error,
        processingTime |-> "ms", completedAt |-> "date"]

\* ------------------------------------------------------------- actions
Init ==
  /\ chartRequests = <<>>
  /\ currentChartId = 1
  /\ sseEvents = <<>>
  /\ currentEventId = 1
  /\ clients = <<>>
  /\ mcpClients = <<>>
  /\ streams = <<>>
  /\ tasks = <<>>
  /\ running = NoRequest
  /\ terminalWrites = <<>>
  /\ lastOp = NoOp
  /\ rejected = <<>>
  /\ clock = 0
  /\ lastRead = NoRead

Requests == DOMAIN tasks

\* the event loop is idle: the next I/O callback may run
Idle == running = NoRequest

\* request r's handler moves to pc; its continuation is a queued microtask
\* (next = r) or it waits for I/O (next = NoRequest)
Goto(r, pc, next) ==
  /\ tasks' = [tasks EXCEPT ![r].pc = pc]
  /\ running' = next

\* the value the promise of generateChart resolved with (none while pending)
Result(r) == tasks[r].result[1]

Return(r, result) ==
  /\ tasks' = [tasks EXCEPT ![r].pc = "returned", ![r].result = <<result>>]
  /\ running' = r

\* request bodies: symbol missing, empty or given; interval in the enum or not
Intervals == {"1m", "5m", "15m", "30m", "1h", "2h", "4h", "6h", "12h",
              "1D", "1W", "1M"}
Configs ==
  {[symbol |-> s, interval |-> i] :
     s \in {UNDEF, "", "NASDAQ:AAPL"}, i \in {"1h", "2d"}}

\* chartConfigSchema.parse returns (TRUE) or throws a ZodError (FALSE)
parse(config) ==
  /\ config.symbol # UNDEF /\ config.symbol # ""
  /\ config.interval \in Intervals

\* a JSON-RPC error sent with another code of the protocol
sendErrorInvalidParams(code, message) ==
  [status |-> 400, result |-> <<>>,
   error |-> <<[code |-> -32602, message |-> message]>>]

\* ChartMCPHttpServer.sendError: res.status(400).json({ jsonrpc, id, error })
sendError(code, message) ==
  [status |-> 400, result |-> <<>>,
   error |-> <<[code |-> code, message |-> message]>>]

\* what the caller gets when parse throws: the 400 of routes.ts, the isError
\* tool result of the stdio server, the JSON-RPC error of the HTTP server
ValidationReply(surface) ==
  CASE surface = "rest" ->
         [status |-> 400, success |-> FALSE,
          error |-> <<"Invalid request parameters">>]
    [] surface = "stdio" ->
         [isError |-> TRUE,
          text |-> <<"Error executing ", "generate_chart", ": ", "ZodError">>]
    [] surface = "http" ->
         sendError(-32603, <<"Tool execution error: ", "ZodError">>)

\* a handler that creates the record before it validates the body
RejectAfterCreate(surface, clientId, config, max) ==
  /\ Idle
  /\ currentChartId + Len(rejected) <= max
  /\ ~parse(config)
  /\ Commit([createChartRequest(World) EXCEPT
               !.rejected = Append(@, ValidationReply(surface))])
  /\ UNCHANGED <<tasks, running>>

\* a config that fails chartConfigSchema arrives on a surface: parse throws
\* before anything else runs and the catch block answers
Reject(surface, clientId, config, max) ==
  /\ Idle
  /\ currentChartId + Len(rejected) <= max
  /\ ~parse(config)
  /\ Commit([World EXCEPT !.rejected = Append(@, ValidationReply(surface))])
  /\ UNCHANGED <<tasks, running>>

\* a valid config arrives on a surface: createChartRequest, then the await
Submit(surface, clientId, max) ==
  /\ Idle
  /\ currentChartId + Len(rejected) <= max
  /\ Commit(createChartRequest(World))
  /\ tasks' = (RequestId(currentChartId) :>
                 [surface |-> surface, clientId |-> clientId,
                  pc |-> "created", result |-> <<>>,
                  responses |-> <<>>, ledgerAtResponse |-> NULL]) @@ tasks
  /\ running' = RequestId(currentChartId)

\* routes.ts: the 'request' event, then the update to processing
RestStart(r) ==
  /\ running = r /\ tasks[r].surface = "rest" /\ tasks[r].pc = "created"
  /\ Commit(updateChartRequest(
              Notify(World, tasks[r].clientId, "request", r),
              r, [status |-> "processing"]))
  /\ Goto(r, "processing", r)

\* routes.ts: generateChart is called (runs to its await of fetch), the
\* then/catch chain is attached and the response is sent
\* RestLaunch with the handler awaiting generateChart before it responds
RestLaunchAwaits(r) ==
  /\ running = r /\ tasks[r].surface = "rest" /\ tasks[r].pc = "processing"
  /\ Commit(generateChartBegin(World, r, tasks[r].clientId))
  /\ Goto(r, "fetching", NoRequest)

\* responses are the bodies sent by res.json; ledgerAtResponse is history:
\* the ledger status of r when res.json ran
RestLaunch(r) ==
  /\ running = r /\ tasks[r].surface = "rest" /\ tasks[r].pc = "processing"
  /\ Commit(generateChartBegin(World, r, tasks[r].clientId))
  /\ tasks' = [tasks EXCEPT
        ![r].pc = "fetching",
        ![r].responses = Append(@, [success |-> TRUE, requestId |-> r,
                                    status |-> "processing"]),
        ![r].ledgerAtResponse =
           StatusNow(generateChartBegin(World, r, tasks[r].clientId), r)]
  /\ running' = NoRequest

\* mcp-server.ts: generateChart is called without a clientId
StdioStart(r) ==
  /\ running = r /\ tasks[r].surface = "stdio" /\ tasks[r].pc = "created"
  /\ Commit(generateChartBegin(World, r, NoClient))
  /\ Goto(r, "fetching", NoRequest)

\* ChartMCPHttpServer: the 'started' broadcast, then generateChart
HttpStart(r) ==
  /\ running = r /\ tasks[r].surface = "http" /\ tasks[r].pc = "created"
  /\ Commit(generateChartBegin(broadcastSSEEvent(World, "started", r),
                               r, NoClient))
  /\ Goto(r, "fetching", NoRequest)

\* fetch rejects, or the response is not ok: the catch block
FetchFails(r) ==
  /\ Idle /\ tasks[r].pc = "fetching"
  /\ Commit(generateChartCatch(World, r, tasks[r].clientId))
  /\ Return(r, FailResult)

\* fetch resolves with an ok response of a known content type
FetchOk(r) ==
  /\ Idle /\ tasks[r].pc = "fetching"
  /\ Commit(generateChartResponse(World, r, tasks[r].clientId))
  /\ Goto(r, "parsing", NoRequest)

\* fetch resolves with an ok response of an unexpected content type:
\* the third 'progress' event, then the throw and the catch block
FetchUnexpected(r) ==
  /\ Idle /\ tasks[r].pc = "fetching"
  /\ Commit(generateChartCatch(
              generateChartResponse(World, r, tasks[r].clientId),
              r, tasks[r].clientId))
  /\ Return(r, FailResult)

\* the body is read
ParseOk(r, p) ==
  /\ Idle /\ tasks[r].pc = "parsing"
  /\ Commit(generateChartSuccess(World, r, tasks[r].clientId))
  /\ Return(r, OkResult(p))

\* reading the body rejects: the catch block
ParseFails(r) ==
  /\ Idle /\ tasks[r].pc = "parsing"
  /\ Commit(generateChartCatch(World, r, tasks[r].clientId))
  /\ Return(r, FailResult)

\* RestThen with the .catch callback writing as well
RestThenAndCatch(r) ==
  /\ running = r /\ tasks[r].surface = "rest" /\ tasks[r].pc = "returned"
  /\ Commit(updateChartRequest(
              updateChartRequest(World, r, TerminalUpdates(Result(r))),
              r, [status |-> "failed", errorMessage |-> "message",
                  completedAt |-> "date"]))
  /\ Goto(r, "done", NoRequest)

\* a .then callback that writes the ledger only when the render succeeded
RestThenSuccessOnly(r) ==
  /\ running = r /\ tasks[r].surface = "rest" /\ tasks[r].pc = "returned"
  /\ Commit(IF Result(r).success
            THEN updateChartRequest(World, r, TerminalUpdates(Result(r)))
            ELSE World)
  /\ Goto(r, "done", NoRequest)

\* routes.ts: the .then callback of the detached chain.  The .catch callback
\* runs only if generateChart or this callback rejects: generateChart catches
\* every throw after its first statement and MemStorage.updateChartRequest
\* never throws, so the .catch callback has no step of its own.
RestThen(r) ==
  /\ running = r /\ tasks[r].surface = "rest" /\ tasks[r].pc = "returned"
  /\ Commit(updateChartRequest(World, r, TerminalUpdates(Result(r))))
  /\ Goto(r, "done", NoRequest)

\* mcp-server.ts: the ledger write after the awaited generateChart
\* the text of the tool result of a successful generate_chart
ToolContent == <<"Chart generated", " successfully!">>

\* the message of the Error thrown when the render failed
ToolFailure(result) == <<"Chart generation failed: ", result.error>>

\* a catch block that returns the message without the isError flag
StdioFinishPlain(r) ==
  /\ running = r /\ tasks[r].surface = "stdio" /\ tasks[r].pc = "returned"
  /\ Commit(updateChartRequest(World, r, TerminalUpdates(Result(r))))
  /\ tasks' = [tasks EXCEPT
        ![r].pc = "done",
        ![r].responses = Append(@,
           IF Result(r).success
           THEN [isError |-> FALSE, text |-> ToolContent]
           ELSE [isError |-> FALSE,
                 text |-> <<"Error executing ", "generate_chart", ": ">>
                            \o ToolFailure(Result(r))]),
        ![r].ledgerAtResponse =
           StatusNow(updateChartRequest(World, r, TerminalUpdates(Result(r))), r)]
  /\ running' = NoRequest

\* mcp-server.ts: the ledger write, then the tool result: the content of
\* handleGenerateChart, or the isError result of the catch block around it
StdioFinish(r) ==
  /\ running = r /\ tasks[r].surface = "stdio" /\ tasks[r].pc = "returned"
  /\ Commit(updateChartRequest(World, r, TerminalUpdates(Result(r))))
  /\ tasks' = [tasks EXCEPT
        ![r].pc = "done",
        ![r].responses = Append(@,
           IF Result(r).success
           THEN [isError |-> FALSE, text |-> ToolContent]
           ELSE [isError |-> TRUE,
                 text |-> <<"Error executing ", "generate_chart", ": ">>
                            \o ToolFailure(Result(r))]),
        ![r].ledgerAtResponse =
           StatusNow(updateChartRequest(World, r, TerminalUpdates(Result(r))), r)]
  /\ running' = NoRequest

\* ChartMCPHttpServer: the ledger write, then the await
HttpFinish(r) ==
  /\ running = r /\ tasks[r].surface = "http" /\ tasks[r].pc = "returned"
  /\ Commit(updateChartRequest(World, r, TerminalUpdates(Result(r))))
  /\ Goto(r, "written", r)

\* handleCallTool: res.json with the result of the tool handler, or
\* sendError with what it threw
CallToolReply(r) ==
  IF Result(r).success
  THEN [status |-> 200, result |-> <<ToolContent>>, error |-> <<>>]
  ELSE sendError(-32603, <<"Tool execution error: ">> \o ToolFailure(Result(r)))

\* a final broadcast that announces completion whatever the result
HttpFinalCompleted(r) ==
  /\ running = r /\ tasks[r].surface = "http" /\ tasks[r].pc = "written"
  /\ Commit(broadcastSSEEvent(World, "completed", r))
  /\ tasks' = [tasks EXCEPT
        ![r].pc = "done",
        ![r].responses = Append(@, CallToolReply(r)),
        ![r].ledgerAtResponse = StatusNow(World, r)]
  /\ running' = NoRequest

\* ChartMCPHttpServer: the final broadcast, then the JSON-RPC response
HttpFinal(r) ==
  /\ running = r /\ tasks[r].surface = "http" /\ tasks[r].pc = "written"
  /\ Commit(broadcastSSEEvent(World,
              IF Result(r).success THEN "completed" ELSE "failed", r))
  /\ tasks' = [tasks EXCEPT
        ![r].pc = "done",
        ![r].responses = Append(@, CallToolReply(r)),
        ![r].ledgerAtResponse = StatusNow(World, r)]
  /\ running' = NoRequest

ToolNames == {"generate_chart", "get_chart"}

\* tools/call with a name that is not in the switch: the default branch
HttpUnknownTool(name) ==
  /\ Idle
  /\ currentChartId + Len(rejected) <= MaxHttpCalls
  /\ name # "generate_chart"
  /\ Commit([World EXCEPT !.rejected =
        Append(@, sendError(-32603, <<"Tool execution error: ",
                                      "Unknown tool: ", name>>))])
  /\ UNCHANGED <<tasks, running>>

\* GET /api/v2/events
Connect(clientId, max) ==
  /\ Idle
  /\ Len(streams) < max
  /\ Commit([handleSSEConnection(World, clientId) EXCEPT !.lastOp = NoOp])
  /\ UNCHANGED <<tasks, running>>

\* GET /mcp/events/:clientId
McpConnect(clientId) ==
  /\ Idle
  /\ Len(streams) < MaxMcpStreams
  /\ Commit(mcpHandleSSEConnection(World, clientId))
  /\ UNCHANGED <<tasks, running>>

\* the connection breaks: the next response.write on the stream throws
StreamBreak(s) ==
  /\ streams[s].state = "open"
  /\ streams' = [streams EXCEPT ![s].state = "broken"]
  /\ lastOp' = NoOp
  /\ UNCHANGED <<chartRequests, currentChartId, sseEvents, currentEventId,
                 clients, mcpClients, tasks, running, terminalWrites,
                 rejected, clock, lastRead>>

\* a close callback that also aborts the owner's renders in flight
StreamCloseCancels(s) ==
  /\ Idle
  /\ streams[s].state \in {"open", "broken", "ended"}
  /\ LET w1 == [World EXCEPT !.streams[s].state = "closed", !.lastOp = NoOp]
     IN Commit(IF streams[s].mgr = "sse"
               THEN removeClient(w1, streams[s].owner)
               ELSE [w1 EXCEPT !.mcpClients =
                                  MapDelete(w1.mcpClients, streams[s].owner)])
  /\ tasks' = [r \in Requests |->
                 IF tasks[r].clientId = streams[s].owner
                    /\ tasks[r].pc \in {"fetching", "parsing"}
                 THEN [tasks[r] EXCEPT !.pc = "cancelled"] ELSE tasks[r]]
  /\ UNCHANGED running

\* the stream's 'close' event: the callback armed when it was registered
StreamClose(s) ==
  /\ Idle
  /\ streams[s].state \in {"open", "broken", "ended"}
  /\ LET w1 == [World EXCEPT !.streams[s].state = "closed", !.lastOp = NoOp]
     IN Commit(IF streams[s].mgr = "sse"
               THEN removeClient(w1, streams[s].owner)
               ELSE [w1 EXCEPT !.mcpClients =
                                  MapDelete(w1.mcpClients, streams[s].owner)])
  /\ UNCHANGED <<tasks, running>>

\* ChartService.generateChart after its first await, on any surface
Render ==
  \/ \E r \in Requests : FetchFails(r)
  \/ \E r \in Requests : FetchOk(r)
  \/ \E r \in Requests : FetchUnexpected(r)
  \/ \E r \in Requests, p \in Payloads : ParseOk(r, p)
  \/ \E r \in Requests : ParseFails(r)

\* the REST server process
Next ==
  \/ \E c \in ClientIds \cup {NoClient} : Submit("rest", c, MaxRequests)
  \/ \E c \in ClientIds \cup {NoClient}, cfg \in Configs :
        Reject("rest", c, cfg, MaxRequests)
  \/ \E r \in Requests : RestStart(r)
  \/ \E r \in Requests : RestLaunch(r)
  \/ Render
  \/ \E r \in Requests : RestThen(r)
  \/ \E c \in ClientIds : Connect(c, MaxStreams)
  \/ \E s \in DOMAIN streams : StreamBreak(s)
  \/ \E s \in DOMAIN streams : StreamClose(s)

Spec == Init /\ [][Next]_vars

\* the event loop runs every queued continuation of r's handler and chain
Handler(r) ==
  r \in Requests /\ (RestStart(r) \/ RestLaunch(r) \/ RestThen(r))

\* the render of r settles: the fetch and the body read resolve or reject
Settle(r) ==
  /\ r \in Requests
  /\ \/ FetchFails(r) \/ FetchOk(r) \/ FetchUnexpected(r) \/ ParseFails(r)
     \/ \E p \in Payloads : ParseOk(r, p)

RequestIds == {RequestId(i) : i \in 1..MaxRequests}

SpecFair ==
  Spec /\ \A r \in RequestIds : WF_vars(Handler(r)) /\ WF_vars(Settle(r))

\* the REST server process with the requests of one client in flight
\* together, on the session of that client
NextPair ==
  \/ Submit("rest", "c1", MaxPair)
  \/ \E r \in Requests : RestStart(r)
  \/ \E r \in Requests : RestLaunch(r)
  \/ \E r \in Requests : FetchFails(r)
  \/ \E r \in Requests : FetchOk(r)
  \/ \E r \in Requests : ParseOk(r, [url |-> "url", base64 |-> UNDEF])
  \/ \E r \in Requests : RestThen(r)
  \/ Connect("c1", MaxStreams)
  \/ \E s \in DOMAIN streams : StreamBreak(s)
  \/ \E s \in DOMAIN streams : StreamClose(s)

SpecPair == Init /\ [][NextPair]_vars

\* the stdio MCP server process
NextStdio ==
  \/ Submit("stdio", NoClient, MaxCalls)
  \/ \E cfg \in Configs : Reject("stdio", NoClient, cfg, MaxCalls)
  \/ \E r \in Requests : StdioStart(r)
  \/ Render
  \/ \E r \in Requests : StdioFinish(r)

SpecStdio == Init /\ [][NextStdio]_vars

\* the HTTP MCP server process
NextHttp ==
  \/ Submit("http", NoClient, MaxHttpCalls)
  \/ \E cfg \in Configs : Reject("http", NoClient, cfg, MaxHttpCalls)
  \/ \E name \in ToolNames : HttpUnknownTool(name)
  \/ \E r \in Requests : HttpStart(r)
  \/ Render
  \/ \E r \in Requests : HttpFinish(r)
  \/ \E r \in Requests : HttpFinal(r)
  \/ \E c \in McpClientIds : McpConnect(c)
  \/ \E s \in DOMAIN streams : StreamBreak(s)
  \/ \E s \in DOMAIN streams : StreamClose(s)

SpecHttp == Init /\ [][NextHttp]_vars

\* ---------------------------------------------- the storage API, called
\* directly: every call of the exported MemStorage, in any order
UnknownRequest == RequestId(0)

UpdateInputs ==
  {[status |-> "processing"], TerminalUpdates(FailResult)}
    \cup {TerminalUpdates(OkResult(p)) : p \in Payloads}

StorageCreate ==
  /\ currentChartId <= MaxRecords
  /\ Commit(createChartRequest(World))
  /\ UNCHANGED <<tasks, running>>

StorageUpdate(requestId, updates) ==
  /\ (requestId \in DOMAIN chartRequests /\ updates.status \in Terminal) =>
        terminalWrites[requestId] < MaxUpdates
  /\ Commit(updateChartRequest(World, requestId, updates))
  /\ UNCHANGED <<tasks, running>>

StorageCreateEvent(requestId, eventType) ==
  /\ currentEventId <= MaxEvents
  /\ Commit(createSseEvent(World, requestId, eventType))
  /\ UNCHANGED <<tasks, running>>

NextStorage ==
  \/ StorageCreate
  \/ \E r \in DOMAIN chartRequests \cup {UnknownRequest}, u \in UpdateInputs :
        StorageUpdate(r, u)
  \/ \E r \in DOMAIN chartRequests \cup {UnknownRequest} :
        StorageCreateEvent(r, "PROGRESS")

SpecStorage == Init /\ [][NextStorage]_vars

\* ------------------------------------------- the ledger and its readers:
\* records are created while the clock may or may not tick in between,
\* events are stored and sessions open, and the read routes are called
LedgerCreate ==
  /\ currentChartId <= MaxCreated
  /\ Commit(createChartRequest(World))
  /\ UNCHANGED <<tasks, running>>

\* a millisecond passes
Tick ==
  /\ clock < MaxClock
  /\ Commit([World EXCEPT !.clock = @ + 1])
  /\ UNCHANGED <<tasks, running>>

\* storage.getRecentChartRequests(limit)
RecentQuery(limit) ==
  /\ Commit([World EXCEPT !.lastRead =
               [call |-> "getRecentChartRequests", limit |-> limit,
                requestId |-> NoRequest, status |-> 200,
                value |-> getRecentChartRequests(World, limit)]])
  /\ UNCHANGED <<tasks, running>>

\* a status query that registers the id it was asked for
StatusQueryCreates(requestId) ==
  /\ Commit([World EXCEPT
               !.chartRequests =
                  IF requestId \in DOMAIN @ THEN @
                  ELSE (requestId :>
                          [createChartRequest(World).chartRequests[
                             RequestId(currentChartId)]
                           EXCEPT !.requestId = requestId]) @@ @,
               !.lastRead =
                  [call |-> "getChartRequest", limit |-> 0,
                   requestId |-> requestId, status |-> 200,
                   value |-> <<>>]])
  /\ UNCHANGED <<tasks, running>>

\* GET /api/v2/chart/status/:requestId: storage.getChartRequest, then 404
\* when it returned undefined, else the record's fields
StatusQuery(requestId) ==
  /\ Commit([World EXCEPT !.lastRead =
               LET chartRequest == getChartRequest(World, requestId) IN
               [call |-> "getChartRequest", limit |-> 0,
                requestId |-> requestId,
                status |-> IF requestId \in DOMAIN chartRequests
                           THEN 200 ELSE 404,
                value |-> IF requestId \in DOMAIN chartRequests
                          THEN <<chartRequest>> ELSE <<>>]])
  /\ UNCHANGED <<tasks, running>>

\* GET /api/v2/events/:requestId: res.json({ success: true, events })
EventsQuery(requestId) ==
  /\ Commit([World EXCEPT !.lastRead =
               [call |-> "getSseEvents", limit |-> 0, requestId |-> requestId,
                status |-> 200, value |-> getSseEvents(World, requestId)]])
  /\ UNCHANGED <<tasks, running>>

NextLedger ==
  \/ LedgerCreate
  \/ Tick
  \/ \E limit \in 1..MaxLimit : RecentQuery(limit)
  \/ \E r \in DOMAIN chartRequests \cup {UnknownRequest} : StatusQuery(r)
  \/ \E r \in DOMAIN chartRequests \cup {UnknownRequest} : EventsQuery(r)
  \/ \E r \in DOMAIN chartRequests : StorageCreateEvent(r, "PROGRESS")
  \/ \E c \in ClientIds : Connect(c, MaxStreams)

SpecLedger == Init /\ [][NextLedger]_vars

\* ------------------------------------------- the SSEManager API, called
\* directly: every call of the exported sseManager, in any order
EventTypes == {"progress"}
EventTargets == {SYSTEM, RequestId(1)}

HasRoom == \A s \in DOMAIN streams : Len(streams[s].log) < MaxLog

\* what the call finds: the registry size, and whether a write it makes throws
Called(op, target, threw) ==
  [op |-> op, target |-> target, count |-> getClientCount(World),
   threw |-> threw]

Throws(clientId) ==
  /\ MapHas(clients, clientId)
  /\ streams[MapStream(clients, clientId)].state = "broken"

SseRemoveClient(clientId) ==
  /\ Commit([removeClient(World, clientId)
               EXCEPT !.lastOp = Called("removeClient", clientId, FALSE)])
  /\ UNCHANGED <<tasks, running>>

SseSendEvent(clientId, eventType, requestId) ==
  /\ HasRoom
  /\ Commit([sendEvent(World, clientId, eventType, requestId)
               EXCEPT !.lastOp = Called("sendEvent", clientId, Throws(clientId))])
  /\ UNCHANGED <<tasks, running>>

SseBroadcast(eventType, requestId) ==
  /\ HasRoom
  /\ Commit([broadcast(World, eventType, requestId)
               EXCEPT !.lastOp = Called("broadcast", "all",
                                        \E c \in ClientIds : Throws(c))])
  /\ UNCHANGED <<tasks, running>>

NextSSE ==
  \/ \E c \in ClientIds : Connect(c, MaxSessions)
  \/ \E c \in ClientIds : SseRemoveClient(c)
  \/ \E c \in ClientIds, e \in EventTypes, r \in EventTargets :
        SseSendEvent(c, e, r)
  \/ \E e \in EventTypes, r \in EventTargets : SseBroadcast(e, r)
  \/ \E s \in DOMAIN streams : StreamBreak(s)
  \/ \E s \in DOMAIN streams : StreamClose(s)

SpecSSE == Init /\ [][NextSSE]_vars

\* ------------------------------------- one stream and its heartbeat timer
\* the process after an exception nobody caught: no callback runs again
Crashed == <<"crashed">>

\* what a response.write outside any try block does on a stream that is
\* not writable: the line is dropped, or the exception ends the process
WriteFailures == {"dropped", "uncaught"}

Fits(s) == Len(streams[s].log) < MaxLines

\* the setInterval callback armed by addClient for stream s: it closes over
\* the client id and the response of that call
Heartbeat(s, failure) ==
  /\ Idle
  /\ streams[s].mgr = "sse"
  /\ streams[s].timer = "armed"
  /\ Fits(s)
  /\ IF ~MapHas(clients, streams[s].owner)
     THEN /\ streams' = [streams EXCEPT ![s].timer = "cleared"]
          /\ UNCHANGED running
     ELSE IF streams[s].state = "open"
     THEN /\ streams' = [streams EXCEPT ![s].log = Append(@, Beat)]
          /\ UNCHANGED running
     ELSE /\ running' = IF failure = "uncaught" THEN Crashed ELSE running
          /\ UNCHANGED streams
  /\ UNCHANGED <<chartRequests, currentChartId, sseEvents, currentEventId,
                 clients, mcpClients, tasks, terminalWrites, lastOp,
                 rejected, clock, lastRead>>

\* sendEvent called for a request's event, from any caller
Deliver(clientId, eventType, requestId) ==
  /\ Idle
  /\ \A s \in DOMAIN streams : Fits(s)
  /\ Commit([sendEvent(World, clientId, eventType, requestId)
               EXCEPT !.lastOp = Called("sendEvent", clientId, Throws(clientId))])
  /\ UNCHANGED <<tasks, running>>

\* one client, connecting and reconnecting under the same id
Subscriber == "c1"

NextStream ==
  \/ Connect(Subscriber, MaxTimers)
  \/ \E e \in EventTypes : Deliver(Subscriber, e, RequestId(1))
  \/ \E s \in DOMAIN streams, f \in WriteFailures : Heartbeat(s, f)
  \/ Idle /\ SseRemoveClient(Subscriber)
  \/ \E s \in DOMAIN streams : Idle /\ StreamBreak(s)
  \/ \E s \in DOMAIN streams : StreamClose(s)

SpecStream == Init /\ [][NextStream]_vars

\* the timers of the streams one client id opens one after another
NextTimer ==
  \/ Connect(Subscriber, MaxReconnects)
  \/ \E s \in DOMAIN streams, f \in WriteFailures : Heartbeat(s, f)
  \/ Idle /\ SseRemoveClient(Subscriber)
  \/ \E s \in DOMAIN streams : Idle /\ StreamBreak(s)
  \/ \E s \in DOMAIN streams : StreamClose(s)

SpecTimer == Init /\ [][NextTimer]_vars

\* ------------------------------------------------------------ properties
Frames(s) == {streams[s].log[i] : i \in 1..Len(streams[s].log)}
History(r) == getSseEvents(World, r)
TerminalEvents(r) ==
  {i \in 1..Len(History(r)) : History(r)[i].eventType \in {"SUCCESS", "ERROR"}}

AllowedTransitions ==
  {<<"pending", "processing">>, <<"processing", "completed">>,
   <<"processing", "failed">>}

\* C1: every ledger write changes a request's status only along
\* pending -> processing, processing -> completed or processing -> failed.
\* (SpecStdio: generate_chart writes completed or failed onto a pending record.)
C1_StatusTransitions ==
  [][\A r \in DOMAIN chartRequests :
        \/ chartRequests'[r].status = chartRequests[r].status
        \/ <<chartRequests[r].status, chartRequests'[r].status>>
              \in AllowedTransitions]_vars

\* C2: once a record is completed or failed, no updateChartRequest call
\* changes it: its status and terminal fields stay as they are.
C2_TerminalImmutable ==
  [][\A r \in DOMAIN chartRequests :
        chartRequests[r].status \in Terminal =>
           chartRequests'[r] = chartRequests[r]]_vars

\* C3: whenever a 'success' or 'error' frame of request R is on a session's
\* stream, the ledger entry of R has the matching terminal status.
C3_LedgerBeforeTerminalEvent ==
  \A s \in DOMAIN streams : \A f \in Frames(s) :
     /\ f.type = "success" => StatusNow(World, f.requestId) = "completed"
     /\ f.type = "error" => StatusNow(World, f.requestId) = "failed"

\* C4: the 'request' frame is written only after the ledger went from
\* pending to processing: the ledger showed processing when it was written.
C4_StartedAfterProcessing ==
  \A s \in DOMAIN streams : \A f \in Frames(s) :
     f.type = "request" => f.ledgerAtWrite = "processing"

\* C5: a request submitted with a client id while no session was ever
\* registered still has its events in the Event Store once it is done:
\* the started event first, two progress events at least, the terminal
\* event last.
C5_DisconnectedDurability ==
  \A r \in Requests :
     (tasks[r].pc = "done" /\ tasks[r].clientId # NoClient /\ streams = <<>>) =>
        /\ Len(History(r)) >= 4
        /\ History(r)[1].eventType = "REQUEST"
        /\ History(r)[Len(History(r))].eventType \in {"SUCCESS", "ERROR"}

\* C6: a request whose render settled and whose chain has run has had
\* exactly one terminal ledger write; no request ever has two, and none
\* has one before its render settled.
C6_OneTerminalWrite ==
  \A r \in Requests :
     /\ terminalWrites[r] <= 1
     /\ tasks[r].pc = "done" => terminalWrites[r] = 1
     /\ tasks[r].pc # "done" => terminalWrites[r] = 0

C6_Witness ==
  \E r \in Requests :
     /\ tasks[r].surface = "rest" /\ tasks[r].pc = "done"
     /\ terminalWrites[r] = 1
     /\ chartRequests[r].status = "failed"

\* C7: once the render of a request has settled, its event history holds
\* exactly one terminal event, with or without a client id or a session.
C7_OneTerminalEvent ==
  \A r \in Requests :
     tasks[r].pc \in {"returned", "done"} => Cardinality(TerminalEvents(r)) = 1

\* C8: once a request has resolved, the last event of its history agrees
\* with its ledger status: SUCCESS iff completed, ERROR iff failed.
C8_LedgerEventConsistency ==
  \A r \in Requests :
     tasks[r].pc = "done" =>
        /\ Len(History(r)) > 0
        /\ History(r)[Len(History(r))].eventType = "SUCCESS"
              <=> chartRequests[r].status = "completed"
        /\ History(r)[Len(History(r))].eventType = "ERROR"
              <=> chartRequests[r].status = "failed"

Registered == {clients[i].stream : i \in 1..Len(clients)}
HistoryLen(ev, r) == IF r \in DOMAIN ev THEN Len(ev[r]) ELSE 0

\* C9: a broadcast of an event with a non-system requestId to N >= 1
\* registered sessions (all of them writable) puts the frame on every one of
\* them and makes the history of that request one event longer.
C9_BroadcastAppendsOnce ==
  [][\A e \in EventTypes, r \in EventTargets \ {SYSTEM} :
        (SseBroadcast(e, r) /\ Len(clients) >= 1
           /\ \A s \in Registered : streams[s].state = "open") =>
           /\ \A s \in Registered :
                 streams'[s].log = Append(streams[s].log, Frame(World, e, r))
           /\ HistoryLen(sseEvents', r) = HistoryLen(sseEvents, r) + 1]_vars

\* C10: a sendEvent whose stream write throws still appends the event
\* (non-system requestId) to the Event Store.
C10_FailedWriteStillStored ==
  [][\A c \in ClientIds, e \in EventTypes, r \in EventTargets \ {SYSTEM} :
        (SseSendEvent(c, e, r) /\ MapHas(clients, c)
           /\ streams[MapStream(clients, c)].state = "broken") =>
           HistoryLen(sseEvents', r) = HistoryLen(sseEvents, r) + 1]_vars

Count == getClientCount(World)
LastFrame(s) == streams[s].log[Len(streams[s].log)]

\* C11: when a write to one registered session fails during a broadcast,
\* every other session registered at the start of the broadcast stays
\* registered and gets the frame exactly once.
C11_BroadcastSurvivesFailure ==
  [][\A e \in EventTypes, r \in EventTargets :
        (SseBroadcast(e, r) /\ \E c \in ClientIds : Throws(c)) =>
           \A s \in Registered :
              streams[s].state = "open" =>
                 /\ streams'[s].log = Append(streams[s].log, Frame(World, e, r))
                 /\ s \in Registered']_vars

C11_Witness ==
  /\ lastOp.op = "broadcast" /\ lastOp.threw /\ lastOp.count = 2
  /\ Count = 1
  /\ \E s \in Registered : LastFrame(s).type \in EventTypes
  /\ \E s \in DOMAIN streams \ Registered : streams[s].state = "ended"

\* C12: a sendEvent whose write throws deregisters that client (the count
\* goes down by one), completes normally, and leaves every other client's
\* registration and stream as they were.
C12_WriteFailureIsDisconnect ==
  [][\A c \in ClientIds, e \in EventTypes, r \in EventTargets :
        (SseSendEvent(c, e, r) /\ Throws(c)) =>
           /\ ~MapHas(clients', c)
           /\ Count' = Count - 1
           /\ streams'[MapStream(clients, c)].state = "ended"
           /\ \A d \in ClientIds \ {c} :
                 /\ MapHas(clients', d) = MapHas(clients, d)
                 /\ MapHas(clients, d) =>
                       /\ MapStream(clients', d) = MapStream(clients, d)
                       /\ streams'[MapStream(clients, d)] =
                            streams[MapStream(clients, d)]]_vars

C12_Witness ==
  /\ lastOp.op = "sendEvent" /\ lastOp.threw /\ lastOp.count = 2
  /\ Count = 1
  /\ ~MapHas(clients, lastOp.target)
  /\ \E s \in Registered : streams[s].state = "open"

\* C13: the registry never holds two entries for one clientId: a clientId
\* registered twice has exactly one registered session, the newer one, and
\* getClientCount counts it once.
C13_OneSessionPerClient ==
  /\ \A i, j \in 1..Len(clients) : clients[i].id = clients[j].id => i = j
  /\ Count = Cardinality({c \in ClientIds : MapHas(clients, c)})
  /\ \A c \in ClientIds :
        MapHas(clients, c) =>
           /\ streams[MapStream(clients, c)].owner = c
           /\ \A s \in DOMAIN streams :
                 (streams[s].owner = c /\ s \in Registered) =>
                    /\ s = MapStream(clients, c)
                    /\ \A s2 \in DOMAIN streams :
                          (streams[s2].owner = c /\ streams[s2].mgr = "sse"
                             /\ streams[s2].state \in {"open", "broken"}) =>
                             s2 <= s

C13_Witness ==
  \E s1, s2 \in DOMAIN streams :
     /\ s1 < s2 /\ streams[s1].owner = streams[s2].owner
     /\ streams[s1].state = "open" /\ s1 \notin Registered
     /\ s2 = MapStream(clients, streams[s2].owner)
     /\ Count = 1

\* C14: removeClient on a clientId that is not registered (never registered,
\* or already removed by an earlier call) changes nothing and leaves the
\* count as the first call left it; so does the close callback of a stream
\* that removeClient ended, and after any removeClient the id is unregistered.
C14_IdempotentRemove ==
  [][/\ \A c \in ClientIds :
           SseRemoveClient(c) =>
              /\ ~MapHas(clients', c)
              /\ ~MapHas(clients, c) =>
                    (Count' = Count /\ clients' = clients /\ streams' = streams)
     /\ \A s \in DOMAIN streams :
           (StreamClose(s) /\ streams[s].state = "ended"
              /\ ~MapHas(clients, streams[s].owner)) =>
              (Count' = Count /\ clients' = clients)]_vars

C14_Witness ==
  /\ lastOp.op = "removeClient" /\ ~MapHas(clients, lastOp.target)
  /\ lastOp.count = Count /\ Count = 1
  /\ \E s \in DOMAIN streams :
        streams[s].owner = lastOp.target /\ streams[s].state = "ended"

RestRequests == {r \in Requests : tasks[r].surface = "rest"}

\* C15: the REST handler has answered {requestId, status 'processing'} by
\* the time it first waits for the render (so before the render settles),
\* not earlier than the update to processing, and the ledger entry had
\* status processing at the moment the response was sent.
C15_RespondsBeforeSettle ==
  \A r \in RestRequests :
     IF tasks[r].pc \in {"created", "processing"}
     THEN tasks[r].responses = <<>>
     ELSE /\ tasks[r].responses =
               <<[success |-> TRUE, requestId |-> r, status |-> "processing"]>>
          /\ tasks[r].ledgerAtResponse = "processing"

C15_Witness ==
  \E r \in RestRequests :
     /\ tasks[r].pc = "fetching" /\ tasks[r].result = <<>>
     /\ Len(tasks[r].responses) = 1
     /\ chartRequests[r].status = "processing"

Present(v) == v \notin {NULL, UNDEF}
HasPayload(rec) == Present(rec.chartUrl) \/ Present(rec.base64Data)

\* C17: a record with status completed has a result payload (chartUrl or
\* base64Data set) and a processingTime.
C17_CompletedHasPayload ==
  \A r \in Requests :
     chartRequests[r].status = "completed" =>
        HasPayload(chartRequests[r]) /\ Present(chartRequests[r].processingTime)

\* C18: a render that fails (fetch rejects, response not ok, unexpected
\* content type, unreadable body) comes back from generateChart as a failed
\* result, never as a rejection: once the chain's callback ran the record is
\* failed with the caught error's message, and chartUrl and base64Data are
\* still null.
C18_RenderFailureIsFailed ==
  \A r \in RestRequests :
     /\ tasks[r].pc \in {"returned", "done"} =>
           Result(r) \in {FailResult} \cup {OkResult(p) : p \in Payloads}
     /\ (tasks[r].pc = "done" /\ ~Result(r).success) =>
           /\ chartRequests[r].status = "failed"
           /\ chartRequests[r].errorMessage = Result(r).error
           /\ Present(chartRequests[r].errorMessage)
           /\ chartRequests[r].chartUrl = NULL
           /\ chartRequests[r].base64Data = NULL

C18_Witness ==
  \E r \in RestRequests :
     /\ tasks[r].pc = "done" /\ Result(r) = FailResult
     /\ chartRequests[r].errorMessage = "message"
     /\ chartRequests[r].chartUrl = NULL

\* C19: in every ledger state the handlers reach, no record has both a
\* result payload and an errorMessage; a record with an errorMessage is
\* failed; a record with a result payload is completed.
C19_PayloadXorError ==
  \A r \in DOMAIN chartRequests :
     LET rec == chartRequests[r] IN
     /\ ~(HasPayload(rec) /\ Present(rec.errorMessage))
     /\ Present(rec.errorMessage) => rec.status = "failed"
     /\ HasPayload(rec) => rec.status = "completed"

C19_Witness ==
  \E r \in DOMAIN chartRequests :
     /\ chartRequests[r].status = "completed" /\ HasPayload(chartRequests[r])
     /\ chartRequests[r].errorMessage = NULL

Accepted(r) == r \in DOMAIN chartRequests
Settled(r) == Accepted(r) /\ chartRequests[r].status \in Terminal

\* C16: with a render that settles and a fair event loop, every accepted
\* REST request eventually has status completed or failed.
C16_EventuallyTerminal ==
  \A r \in RequestIds : Accepted(r) ~> Settled(r)

C16_Witness ==
  \E r \in RestRequests :
     /\ Settled(r) /\ tasks[r].pc = "done"
     /\ chartRequests[r].completedAt = "date"

\* r was submitted by a client whose session got r's 'request' event and is
\* now closed or removed
SessionGone(r) ==
  /\ tasks[r].clientId # NoClient
  /\ ~MapHas(clients, tasks[r].clientId)
  /\ \E s \in DOMAIN streams :
        /\ streams[s].owner = tasks[r].clientId
        /\ streams[s].state \in {"ended", "closed"}
        /\ \E f \in Frames(s) : f.type = "request" /\ f.requestId = r

Recorded(r) ==
  /\ Settled(r) /\ tasks[r].pc = "done"
  /\ chartRequests[r].status = "completed" =>
        /\ chartRequests[r].chartUrl = Result(r).url
        /\ chartRequests[r].base64Data = Result(r).base64
  /\ chartRequests[r].status = "failed" =>
        chartRequests[r].errorMessage = Result(r).error

\* C20: a REST request whose submitting client's session closes or is
\* removed while the render is in flight is not cancelled: the render still
\* settles and the request reaches completed or failed with its result or
\* error recorded.
C20_NoCancelOnDisconnect ==
  \A r \in RequestIds :
     (/\ r \in RestRequests
      /\ tasks[r].pc \in {"fetching", "parsing"}
      /\ SessionGone(r)) ~> (r \in RestRequests /\ Recorded(r))

C20_Witness ==
  \E r \in RestRequests :
     /\ Recorded(r) /\ SessionGone(r)
     /\ \A s \in DOMAIN streams :
           \A f \in Frames(s) :
              f.requestId = r => f.type \in {"request", "progress"}

Surfaces == {"rest", "stdio", "http"}
MaxOf(surface) ==
  CASE surface = "rest" -> MaxRequests
    [] surface = "stdio" -> MaxCalls
    [] surface = "http" -> MaxHttpCalls

\* C21: a submission whose config fails chartConfigSchema is answered with
\* a validation error in the same turn (nothing is left queued), creates no
\* ChartRequest, writes to no stream and appends nothing to the Event Store.
C21_ValidationSideEffectFree ==
  [][\A surface \in Surfaces, c \in ClientIds \cup {NoClient}, cfg \in Configs :
        Reject(surface, c, cfg, MaxOf(surface)) =>
           /\ rejected' = Append(rejected, ValidationReply(surface))
           /\ chartRequests' = chartRequests /\ currentChartId' = currentChartId
           /\ sseEvents' = sseEvents /\ currentEventId' = currentEventId
           /\ streams' = streams /\ clients' = clients
           /\ mcpClients' = mcpClients
           /\ tasks' = tasks /\ running' = NoRequest]_vars

C21_Witness ==
  /\ Len(rejected) = 1 /\ rejected[1].status = 400
  /\ chartRequests = <<>> /\ sseEvents = <<>>
  /\ Count = 1
  /\ \A s \in DOMAIN streams : Len(streams[s].log) = 2

Records == {chartRequests[r] : r \in DOMAIN chartRequests}
MoreRecent(a, b) ==
  \/ a.createdAt > b.createdAt
  \/ a.createdAt = b.createdAt /\ a.id > b.id

\* C22: getRecentChartRequests(limit), limit >= 1, returns min(limit, total)
\* records, each more recent than the next and than every record left out,
\* where of two records with equal createdAt the one with the higher id is
\* the more recent.
C22_RecentNewestFirst ==
  \A limit \in 1..MaxLimit :
     LET res == getRecentChartRequests(World, limit)
         total == Cardinality(Records)
     IN /\ Len(res) = IF limit < total THEN limit ELSE total
        /\ \A i, j \in 1..Len(res) : i < j => MoreRecent(res[i], res[j])
        /\ \A i \in 1..Len(res) :
              \A rec \in Records \ {res[k] : k \in 1..Len(res)} :
                 MoreRecent(res[i], rec)

\* C23: a status query changes neither the ledger nor the Event Store nor
\* the session registry; for an unknown requestId the caller gets a 404
\* without a record, for a known one the record as it is stored.
C23_StatusQueryIsPureRead ==
  [][\A r \in DOMAIN chartRequests \cup {UnknownRequest} :
        StatusQuery(r) =>
           /\ chartRequests' = chartRequests /\ currentChartId' = currentChartId
           /\ sseEvents' = sseEvents /\ currentEventId' = currentEventId
           /\ clients' = clients /\ streams' = streams
           /\ lastRead'.requestId = r
           /\ IF r \in DOMAIN chartRequests
              THEN lastRead'.status = 200
                   /\ lastRead'.value = <<chartRequests[r]>>
              ELSE lastRead'.status = 404 /\ lastRead'.value = <<>>]_vars

C23_Witness ==
  /\ lastRead.call = "getChartRequest" /\ lastRead.status = 404
  /\ lastRead.requestId = UnknownRequest
  /\ UnknownRequest \notin DOMAIN chartRequests
  /\ Cardinality(Records) >= 1 /\ Count >= 1 /\ sseEvents # <<>>

IsPrefix(a, b) == Len(a) <= Len(b) /\ SubSeq(b, 1, Len(a)) = a

\* the lines of a stream in the order response.write put them there
RECURSIVE Written(_)
Written(log) ==
  IF log = <<>> THEN <<>>
  ELSE LET last == log[Len(log)] IN
       Written(SubSeq(log, 1, Len(log) - 1))
         \o [i \in 1..Len(last.lines) |->
               [entry |-> Len(log), line |-> last.lines[i]]]

\* C25: a session receives its frames in the order sendEvent was called:
\* every call on a writable registered session puts its frame after all
\* the lines already written, nothing written is moved or removed, and the
\* 'event:' line of a frame is directly followed by the 'data:' line of the
\* same frame, with no line of another event or of the heartbeat between
C25_DeliveryInCallOrder ==
  [][/\ \A s \in DOMAIN streams :
          /\ IsPrefix(streams[s].log, streams'[s].log)
          /\ \A e \in EventTypes :
               (/\ MapHas(clients, Subscriber)
                /\ MapStream(clients, Subscriber) = s
                /\ streams[s].state = "open"
                /\ Deliver(Subscriber, e, RequestId(1)))
               => streams'[s].log =
                    Append(streams[s].log, Frame(World, e, RequestId(1)))
     /\ \A s \in DOMAIN streams' :
          LET w == Written(streams'[s].log) IN
          \A i \in DOMAIN w :
            w[i].line = "event"
            => /\ i < Len(w)
               /\ w[i + 1].line = "data"
               /\ w[i + 1].entry = w[i].entry]_vars

\* two events of one request on one session, with a heartbeat between them
C25_Witness ==
  \E s \in DOMAIN streams :
    /\ Len(streams[s].log) = 5
    /\ [i \in 1..5 |-> streams[s].log[i].type]
         = <<"connection", "connection", "progress", "heartbeat", "progress">>
    /\ \A i \in {3, 5} : streams[s].log[i].requestId = RequestId(1)

Writable(c) ==
  MapHas(clients, c) /\ streams[MapStream(clients, c)].state = "open"

\* C26: with c1 and c2 both registered and writable, sendEvent to one of
\* them appends the frame to that client's session and leaves every other
\* stream as it was, and broadcast appends the frame to both sessions
C26_AudienceIsolation ==
  [][\A e \in EventTypes, r \in EventTargets :
       (\A c \in ClientIds : Writable(c))
       => /\ \A c \in ClientIds :
               SseSendEvent(c, e, r)
               => \A s \in DOMAIN streams :
                    streams'[s] =
                      IF s = MapStream(clients, c)
                      THEN [streams[s] EXCEPT !.log = Append(@, Frame(World, e, r))]
                      ELSE streams[s]
          /\ SseBroadcast(e, r)
             => \A c \in ClientIds :
                  streams'[MapStream(clients, c)].log =
                    Append(streams[MapStream(clients, c)].log, Frame(World, e, r))]_vars

\* sendEvent for c1 has run with c1 and c2 registered: c1 has the progress
\* frame and c2 has only the frames of its own connection
C26_Witness ==
  /\ lastOp.op = "sendEvent"
  /\ lastOp.target = "c1"
  /\ \A c \in ClientIds : Writable(c)
  /\ LastFrame(MapStream(clients, "c1")).type = "progress"
  /\ \A k \in DOMAIN streams[MapStream(clients, "c2")].log :
       streams[MapStream(clients, "c2")].log[k].type = "connection"

\* a progress event of request r was emitted: stored in its history or
\* written to a stream
ProgressEmitted(r) ==
  \/ \E i \in DOMAIN History(r) : History(r)[i].eventType = "PROGRESS"
  \/ \E s \in DOMAIN streams : \E k \in DOMAIN streams[s].log :
       /\ streams[s].log[k].requestId = r
       /\ streams[s].log[k].type = "progress"

\* C27: on every surface a request whose terminal status is in the ledger,
\* or whose final event is on a stream, had at least one progress event
\* emitted before; the HTTP MCP flow broadcasts progress events between
\* 'started' and the final chart_progress event
C27_ProgressBeforeTerminal ==
  \A r \in DOMAIN chartRequests :
    (\/ chartRequests[r].status \in Terminal
     \/ \E s \in DOMAIN streams : \E k \in DOMAIN streams[s].log :
          /\ streams[s].log[k].requestId = r
          /\ streams[s].log[k].type \in {"completed", "failed", "success", "error"})
    => ProgressEmitted(r)

McpWritable(c) ==
  MapHas(mcpClients, c) /\ streams[MapStream(mcpClients, c)].state = "open"

\* the frames of request r on a log that announce its end
Finals(log, r) ==
  {k \in DOMAIN log :
     log[k].requestId = r /\ log[k].type \in {"completed", "failed"}}

Contains(text, part) == \E i \in DOMAIN text : text[i] = part

StdioCalls == {r \in Requests : tasks[r].surface = "stdio"}

\* C29: on the stdio surface a generate_chart call is answered once, when
\* its handler is done, by a tool result with text: after a successful
\* render the text contains 'Chart generated', isError is not set and the
\* ledger entry is completed when the result is returned; after a failed
\* render isError is true, the text carries the failure message and the
\* ledger entry is failed; invalid arguments get an isError result too
C29_StdioToolResult ==
  /\ \A r \in StdioCalls :
       /\ Len(tasks[r].responses) = IF tasks[r].pc = "done" THEN 1 ELSE 0
       /\ tasks[r].pc = "done"
          => LET reply == tasks[r].responses[1] IN
             /\ reply.text # <<>>
             /\ IF Result(r).success
                THEN /\ ~reply.isError
                     /\ Contains(reply.text, "Chart generated")
                     /\ tasks[r].ledgerAtResponse = "completed"
                     /\ chartRequests[r].status = "completed"
                ELSE /\ reply.isError
                     /\ Contains(reply.text, Result(r).error)
                     /\ tasks[r].ledgerAtResponse = "failed"
                     /\ chartRequests[r].status = "failed"
  /\ \A i \in DOMAIN rejected :
       rejected[i].isError /\ Contains(rejected[i].text, "ZodError")

\* one call whose render failed and one call with invalid arguments, both
\* answered
C29_Witness ==
  /\ \E r \in StdioCalls :
       /\ tasks[r].pc = "done"
       /\ ~Result(r).success
       /\ tasks[r].responses[1].isError
  /\ rejected # <<>>

HttpCalls == {r \in Requests : tasks[r].surface = "http"}

\* C30: on the HTTP MCP surface a tools/call request is answered once, when
\* its handler is done: by a response with result content and no error
\* exactly when the render succeeded; by an error object with code -32603
\* and no result when the render failed, the arguments were invalid or the
\* tool name is unknown; and after a failed render the ledger entry is
\* already failed when the error response is sent
C30_HttpCallToolReply ==
  /\ \A r \in HttpCalls :
       /\ Len(tasks[r].responses) = IF tasks[r].pc = "done" THEN 1 ELSE 0
       /\ tasks[r].pc = "done"
          => LET reply == tasks[r].responses[1] IN
             /\ (reply.result # <<>>) <=> Result(r).success
             /\ (reply.error = <<>>) <=> Result(r).success
             /\ Result(r).success => Contains(reply.result[1], "Chart generated")
             /\ ~Result(r).success
                => /\ reply.error[1].code = -32603
                   /\ Contains(reply.error[1].message, Result(r).error)
                   /\ tasks[r].ledgerAtResponse = "failed"
                   /\ chartRequests[r].status = "failed"
  /\ \A i \in DOMAIN rejected :
       /\ rejected[i].result = <<>>
       /\ Len(rejected[i].error) = 1
       /\ rejected[i].error[1].code = -32603

\* a call whose render failed, answered with the error object after the
\* ledger entry was written as failed
C30_Witness ==
  \E r \in HttpCalls :
    /\ tasks[r].pc = "done"
    /\ ~Result(r).success
    /\ tasks[r].responses[1].result = <<>>
    /\ tasks[r].responses[1].error # <<>>
    /\ tasks[r].ledgerAtResponse = "failed"

\* stream s was registered for its owner and a later addClient took its place
Replaced(s) ==
  /\ streams[s].mgr = "sse"
  /\ MapHas(clients, streams[s].owner)
  /\ MapStream(clients, streams[s].owner) # s

\* C31: the close event of a stream that a later addClient with the same
\* clientId replaced leaves the newer session alone: the client is still
\* registered with the newer stream and that stream has not been ended
C31_StaleCloseKeepsNewer ==
  [][\A s \in DOMAIN streams :
       (Replaced(s) /\ StreamClose(s))
       => /\ clients' = clients
          /\ streams'[MapStream(clients, streams[s].owner)]
               = streams[MapStream(clients, streams[s].owner)]]_vars

\* C32: when addClient registers a session for a clientId that already has
\* one, the prior session's stream is ended as part of the replacement, so
\* no stream stays open without being the registered one of its clientId
C32_ReplacedStreamEnded ==
  [][\A c \in ClientIds :
       (MapHas(clients, c) /\ Connect(c, MaxSessions))
       => /\ streams'[MapStream(clients, c)].state \in {"ended", "closed"}
          /\ \A s \in DOMAIN streams' :
               (streams'[s].owner = c /\ streams'[s].state = "open")
               => MapStream(clients', c) = s]_vars

\* stream s is the one registered for its owner
Current(s) ==
  MapHas(clients, streams[s].owner) /\ MapStream(clients, streams[s].owner) = s

\* C33: a heartbeat tick writes to a stream only while that stream is the
\* one registered for its client: once the session was removed or replaced,
\* a tick of the old timer writes nothing and attempts no write, also when
\* the client id was registered again before the tick
C33_HeartbeatOnlyWhileRegistered ==
  [][\A s \in DOMAIN streams, f \in WriteFailures :
       (Heartbeat(s, f) /\ ~Current(s))
       => /\ streams'[s].log = streams[s].log
          /\ streams'[s].timer = "cleared"
          /\ running' = running]_vars

FrameTypes(s, r) ==
  LET own == SelectSeq(streams[s].log, LAMBDA f : f.requestId = r)
  IN [k \in DOMAIN own |-> own[k].type]

HistoryTypes(r) == [k \in DOMAIN History(r) |-> History(r)[k].eventType]

\* request r was submitted with a client id whose session has been the
\* registered one since the 'request' event was written to it
Followed(r) ==
  /\ tasks[r].surface = "rest"
  /\ tasks[r].clientId # NoClient
  /\ MapHas(clients, tasks[r].clientId)
  /\ LET log == streams[MapStream(clients, tasks[r].clientId)].log IN
     \E k \in DOMAIN log : log[k].requestId = r /\ log[k].type = "request"

\* the events of r on the session of its client agree with the sequences
\* in ends: one of them once the render has settled, the start of one before
InSequence(ends) ==
  \A r \in Requests :
    Followed(r)
    => LET seq == FrameTypes(MapStream(clients, tasks[r].clientId), r) IN
       /\ HistoryTypes(r) = [k \in DOMAIN seq |-> toUpperCase(seq[k])]
       /\ \E e \in ends : IsPrefix(seq, e)
       /\ tasks[r].pc \in {"returned", "done"} => seq \in ends

\* C35 as stated: with a session registered from submit until the render
\* settles, the events of the request on that session and in its history
\* are exactly request, progress, progress, then progress and success, or
\* error, and nothing follows the success or error event
C35_ExactSequence ==
  InSequence({<<"request", "progress", "progress", "progress", "success">>,
              <<"request", "progress", "progress", "error">>})

\* C35: with a session registered from submit until the render settles, the
\* events of the request on that session and in its history are request,
\* progress, progress, then error when the upstream call fails or answers
\* with an error status, and otherwise a third progress followed by success
\* or, when the body cannot be used, by error; nothing follows the success
\* or error event
C35_EventSequence ==
  InSequence({<<"request", "progress", "progress", "progress", "success">>,
              <<"request", "progress", "progress", "progress", "error">>,
              <<"request", "progress", "progress", "error">>})

\* the upstream answered 200 with a body that could not be used: the third
\* progress event is followed by the error event
C35_Witness ==
  \E r \in Requests :
    /\ Followed(r)
    /\ tasks[r].pc = "done"
    /\ FrameTypes(MapStream(clients, tasks[r].clientId), r)
         = <<"request", "progress", "progress", "progress", "error">>

\* C36: a step of the handler or of the render of request A leaves the
\* ledger record and the event history of every other request B as they
\* were, also when A fails; and the failure or the close of a session's
\* stream changes no ledger record and no handler's position, so it blocks
\* no request on its way to a terminal status
C36_CrossRequestIsolation ==
  [][/\ \A a \in DOMAIN tasks', b \in DOMAIN chartRequests :
          (a # b /\ (a \notin DOMAIN tasks \/ tasks'[a] # tasks[a]))
          => /\ b \in DOMAIN chartRequests'
             /\ chartRequests'[b] = chartRequests[b]
             /\ getSseEvents(World, b)
                  = (IF b \in DOMAIN sseEvents' THEN sseEvents'[b] ELSE <<>>)
     /\ \A s \in DOMAIN streams :
          (StreamBreak(s) \/ StreamClose(s))
          => /\ chartRequests' = chartRequests
             /\ sseEvents' = sseEvents
             /\ tasks' = tasks
             /\ running' = running]_vars

\* two requests of one client, one failed and one completed, each with its
\* own events, after the client's stream was closed
C36_Witness ==
  \E a, b \in Requests :
    /\ tasks[a].pc = "done" /\ tasks[b].pc = "done"
    /\ chartRequests[a].status = "failed"
    /\ chartRequests[b].status = "completed"
    /\ getSseEvents(World, a) # <<>>
    /\ getSseEvents(World, b) # <<>>
    /\ \E s \in DOMAIN streams : streams[s].state = "closed"

\* C37: the event store is append-only: in every step, whatever runs (an
\* event emission, a ledger update, a session close), the history of every
\* request keeps all its events, unchanged and in the same order, as the
\* start of its later history
C37_EventStoreAppendOnly ==
  [][\A r \in DOMAIN sseEvents :
       /\ r \in DOMAIN sseEvents'
       /\ IsPrefix(sseEvents[r], sseEvents'[r])]_vars

\* a request with its whole history stored, after its terminal ledger write
\* and after the session it was written to closed
C37_Witness ==
  \E r \in Requests :
    /\ Len(getSseEvents(World, r)) >= 4
    /\ tasks[r].pc = "done"
    /\ \E s \in DOMAIN streams : streams[s].state = "closed"

\* C38: request identifiers are unique: every createChartRequest call, also
\* one in the same millisecond as earlier ones, adds one entry under a
\* requestId no entry had, leaves every existing entry as it was, and gives
\* the new request a numeric id greater than all earlier ones
C38_UniqueRequestIds ==
  [][LedgerCreate
     => /\ Cardinality(DOMAIN chartRequests')
             = Cardinality(DOMAIN chartRequests) + 1
        /\ \A q \in DOMAIN chartRequests :
             /\ q \in DOMAIN chartRequests'
             /\ chartRequests'[q] = chartRequests[q]
        /\ \A r \in DOMAIN chartRequests' \ DOMAIN chartRequests :
             /\ chartRequests'[r].requestId = r
             /\ \A q \in DOMAIN chartRequests :
                  /\ chartRequests'[r].id > chartRequests[q].id
                  /\ chartRequests[q].requestId # r]_vars

\* three requests created in the same millisecond, each under its own
\* requestId
C38_Witness ==
  /\ Cardinality(DOMAIN chartRequests) = 3
  /\ \A q, r \in DOMAIN chartRequests :
       /\ chartRequests[q].createdAt = chartRequests[r].createdAt
       /\ q # r => chartRequests[q].id # chartRequests[r].id

\* C39: an event with the reserved requestId 'system' (the connection event
\* of addClient) is written to the session's stream and is not stored: no
\* history is ever keyed by 'system'; an event with any other requestId
\* that was written to a session is appended to the history of its request
C39_SystemNeverStored ==
  [][/\ SYSTEM \notin DOMAIN sseEvents'
     /\ \A c \in ClientIds :
          Connect(c, MaxSessions)
          => /\ sseEvents' = sseEvents
             /\ LET f == streams'[Len(streams')].log[Len(streams'[Len(streams')].log)]
                IN f.type = "connection" /\ f.requestId = SYSTEM
     /\ \A c \in ClientIds, e \in EventTypes, r \in EventTargets :
          (Writable(c) /\ SseSendEvent(c, e, r))
          => /\ streams'[MapStream(clients, c)].log =
                  Append(streams[MapStream(clients, c)].log, Frame(World, e, r))
             /\ IF r = SYSTEM
                THEN sseEvents' = sseEvents
                ELSE /\ r \in DOMAIN sseEvents'
                     /\ sseEvents'[r] =
                          Append(getSseEvents(World, r),
                                 [id |-> currentEventId, requestId |-> r,
                                  eventType |-> toUpperCase(e)])]_vars

\* a session that got the connection event of addClient and then an event
\* of a request: the second is stored, and nothing is stored under 'system'
C39_Witness ==
  /\ \E s \in DOMAIN streams :
       /\ \E k \in DOMAIN streams[s].log :
            /\ streams[s].log[k].requestId = SYSTEM
            /\ streams[s].log[k].type = "connection"
       /\ LastFrame(s).requestId = RequestId(1)
  /\ Len(getSseEvents(World, RequestId(1))) = 1
  /\ SYSTEM \notin DOMAIN sseEvents

\* C40: an event-history query for a requestId that is not in the ledger is
\* answered with a 'not found' result (status 404), which a caller can tell
\* from the answer for a known request that has no events yet
C40_UnknownHistoryNotFound ==
  (/\ lastRead.call = "getSseEvents"
   /\ lastRead.requestId \notin DOMAIN chartRequests)
  => lastRead.status = 404
================================================================================
